---- MODULE Spec2Model ----
(***************************************************************************)
(* Override-layer stack of pydsettings: the lazy settings proxy           *)
(* (LazySettings), the layers it wraps (UserSettingsHolder, Settings) and  *)
(* the override scope (override_settings) with its change notifications.   *)
(***************************************************************************)
EXTENDS Integers, Sequences, FiniteSets, TLC

\* ------------------------------------------------------------------ bounds

\* enable()/__enter__ and set()/delete() calls one run may make.
MaxOps == 2

\* Objects one run can allocate: one per enable(), and one by configure() or
\* the deferred setup.
MaxObjs == MaxOps + 1

\* ------------------------------------------------------------- vocabulary

\* Names of the objects of the heap, in allocation order.
RefNames == <<"@1", "@2", "@3", "@4", "@5", "@6">>

Refs == {RefNames[i] : i \in 1..MaxObjs}

\* The `empty` sentinel: the unconfigured proxy, and the default defaults.
Empty == "empty"

\* Python's None.
None == "None"

\* Marks a name that is not in an instance dictionary / not an option.
Absent == "ABSENT"

\* Setting names: two ordinary ones, one that is also a class attribute of
\* UserSettingsHolder, and the instance attribute holding a layer's fallback.
Keys == {"TEST", "USE_I18N", "SETTINGS_MODULE", "default_settings"}

\* The order in which a mapping of options is iterated.
KeyOrder == <<"TEST", "USE_I18N", "SETTINGS_MODULE", "default_settings">>

\* Values callers assign with set().
InVals == {"c"}

\* Override scopes (override_settings objects).
Scopes == {"A", "B"}

\* What PYCONF_MODULE may hold: unset, or the name of an importable settings
\* module. (The code treats the empty string as unset.)
EnvStates == {"unset", "mod"}

\* Kinds of outcome of an operation, by the exception raised.
NotFound == "AttributeError"

NotConfigured == "ImproperlyConfigured"

AlreadyConfigured == "RuntimeError"

Ok == [kind |-> "ok", val |-> None]

Value(v) == [kind |-> "value", val |-> v]

Raise(e) == [kind |-> e, val |-> None]

NoOpts == [k \in Keys |-> Absent]

Opt1(k, v) == [NoOpts EXCEPT ![k] = v]

Opt2(k1, v1, k2, v2) == [NoOpts EXCEPT ![k1] = v1, ![k2] = v2]

\* What a run starts from: the keyword arguments the scopes A and B are
\* constructed with, and what COMPLEX_OVERRIDE_SETTINGS holds.
Setups ==
    { <<Opt1("TEST", "a"), Opt2("TEST", "b", "USE_I18N", "a"), {"TEST"}>>,
      <<Opt1("SETTINGS_MODULE", "a"), Opt1("default_settings", "a"),
        {"USE_I18N", "default_settings"}>>,
      <<NoOpts, Opt1("USE_I18N", "b"), {"USE_I18N"}>> }

\* The arguments of configure(): default_settings and the options.
ConfigureArgs ==
    { <<"empty", NoOpts>>, <<"@defaults", Opt1("TEST", "a")>> }

\* The keys of a mapping of options, in iteration order.
OptKeys(opts) == SelectSeq(KeyOrder, LAMBDA k : opts[k] # Absent)

\* --------------------------------------------------------------- objects

NoObj == [kind |-> "free", attrs |-> [k \in Keys |-> Absent], deleted |-> {}]

Allocated(h) == {r \in Refs : h[r].kind # "free"}

NewRef(h) == RefNames[Cardinality(Allocated(h)) + 1]

\* The settings the module named by PYCONF_MODULE defines.
ModuleSettings == [NoOpts EXCEPT !["USE_I18N"] = "orig"]

\* Settings(settings_module): the ALL_CAPS names of global_settings (it is
\* `empty`: none), SETTINGS_MODULE, then the ALL_CAPS names of the module.
SettingsInit(module) ==
    [kind |-> "Settings",
     attrs |-> [k \in Keys |->
                   IF ModuleSettings[k] # Absent /\ k # "default_settings"
                   THEN ModuleSettings[k]
                   ELSE IF k = "SETTINGS_MODULE" THEN module ELSE Absent],
     deleted |-> {}]

\* The configuration object a caller hands to configure() as default_settings.
\* Nothing assigns to it: the proxy never wraps it directly.
DefaultsRef == "@defaults"

DefaultsObj ==
    [kind |-> "Plain",
     attrs |-> [NoOpts EXCEPT !["USE_I18N"] = "orig"],
     deleted |-> {}]

IsObject(h, v) == v = DefaultsRef \/ v \in Allocated(h)

Deref(h, v) == IF v = DefaultsRef THEN DefaultsObj ELSE h[v]

\* Mutant: __setattr__ does not take the name out of _deleted.
HolderSetattrKeepsDeleted(o, name, value) == [o EXCEPT !.attrs[name] = value]

\* UserSettingsHolder.__setattr__ on the object o.
HolderSetattr(o, name, value) ==
    [o EXCEPT !.deleted = @ \ {name}, !.attrs[name] = value]

\* UserSettingsHolder(default_settings)
HolderInit(default_settings) ==
    HolderSetattr([kind |-> "Holder", attrs |-> NoOpts, deleted |-> {}],
                  "default_settings", default_settings)

\* object.__setattr__ / UserSettingsHolder.__setattr__, by the object's class.
ObjSetattr(o, name, value) ==
    IF o.kind = "Holder" THEN HolderSetattr(o, name, value)
    ELSE [o EXCEPT !.attrs[name] = value]

\* UserSettingsHolder.__delattr__: the name is recorded as deleted, then
\* object.__delattr__ removes it from the instance dictionary, raising
\* AttributeError when it is not there.
HolderDelattr(o, name) ==
    LET marked == [o EXCEPT !.deleted = @ \cup {name}]
    IN  IF o.attrs[name] = Absent
        THEN [obj |-> marked, res |-> Raise(NotFound)]
        ELSE [obj |-> [marked EXCEPT !.attrs[name] = Absent], res |-> Ok]

ObjDelattr(o, name) ==
    IF o.kind = "Holder" THEN HolderDelattr(o, name)
    ELSE IF o.attrs[name] = Absent
         THEN [obj |-> o, res |-> Raise(NotFound)]
         ELSE [obj |-> [o EXCEPT !.attrs[name] = Absent], res |-> Ok]

\* Class attributes of UserSettingsHolder that have a setting's name.
HolderClassAttrs == [NoOpts EXCEPT !["SETTINGS_MODULE"] = None]

\* getattr(v, name) on any value v: the instance dictionary, then the class,
\* then (UserSettingsHolder only) __getattr__, which refuses deleted names
\* and asks self.default_settings. depth counts the nested calls, as the
\* interpreter's recursion limit does.
RECURSIVE Getattr(_, _, _, _)
Getattr(h, v, name, depth) ==
    IF ~IsObject(h, v) THEN Raise(NotFound)
    ELSE LET o == Deref(h, v) IN
         IF o.attrs[name] # Absent THEN Value(o.attrs[name])
         ELSE IF o.kind # "Holder" THEN Raise(NotFound)
         ELSE IF HolderClassAttrs[name] # Absent
              THEN Value(HolderClassAttrs[name])
         ELSE IF name \in o.deleted THEN Raise(NotFound)
         ELSE IF depth = 0 THEN Raise("RecursionError")
         ELSE LET d == Getattr(h, v, "default_settings", depth - 1) IN
              IF d.kind # "value" THEN d
              ELSE Getattr(h, d.val, name, depth - 1)

\* The recursion limit, in layers.
RecursionLimit == MaxObjs + 2

\* ------------------------------------------------------------------ state

VARIABLES
    heap,          \* the objects: layers (UserSettingsHolder) and Settings
    wrapped,       \* settings._wrapped: a reference, or Empty
    env,           \* os.environ[ENVIRONMENT_VARIABLE]
    options,       \* per scope: self.options
    saved,         \* per scope: self.wrapped, Absent when the attribute is not set
    complex,       \* COMPLEX_OVERRIDE_SETTINGS
    pending,       \* per scope: enable() calls that returned and are not yet answered
    result,        \* how the last operation ended
    events,        \* the setting_changed events the last operation sent
    warnings,      \* the warnings the last operation emitted
    nops,          \* enable()/__enter__ and set()/delete() calls made so far
    mkeys,         \* the keys set()/delete() were called with so far
    nest,          \* history: the activations in effect, outermost first
    proper,        \* history: every disable() so far ended the innermost activation
    ended,         \* history: the activation the last operation ended, if it did
    cfgd           \* history: a configure() call has succeeded

vars == <<heap, wrapped, env, options, saved, complex, pending, result,
          events, warnings, nops, mkeys, nest, proper, ended, cfgd>>

Store(h, w) == [heap |-> h, wrapped |-> w]

Cur == Store(heap, wrapped)

\* ------------------------------------------------------------------ proxy

\* Mutant: without PYCONF_MODULE the setup fails like a missing setting.
SetupAsMissing(st, e) ==
    IF e \in {"unset", ""} THEN [st |-> st, res |-> Raise(NotFound)]
    ELSE LET r == NewRef(st.heap) IN
         [st |-> Store([st.heap EXCEPT ![r] = SettingsInit(e)], r), res |-> Ok]

\* LazySettings._setup: no usable PYCONF_MODULE raises ImproperlyConfigured;
\* otherwise the module is loaded into a Settings object, which is wrapped.
Setup(st, e) ==
    IF e \in {"unset", ""} THEN [st |-> st, res |-> Raise(NotConfigured)]
    ELSE LET r == NewRef(st.heap) IN
         [st |-> Store([st.heap EXCEPT ![r] = SettingsInit(e)], r), res |-> Ok]

\* The deferred setup every accessor of the proxy starts with.
EnsureSetup(st, e) ==
    IF st.wrapped = Empty THEN Setup(st, e) ELSE [st |-> st, res |-> Ok]

\* LazySettings.__getattr__
ProxyGetattr(st, e, name) ==
    LET s == EnsureSetup(st, e) IN
    IF s.res # Ok THEN s
    ELSE [st |-> s.st,
          res |-> Getattr(s.st.heap, s.st.wrapped, name, RecursionLimit)]

\* LazyObject.__setattr__ for a setting's name
ProxySetattr(st, e, name, value) ==
    LET s == EnsureSetup(st, e) IN
    IF s.res # Ok THEN s
    ELSE LET w == s.st.wrapped IN
         [st |-> Store([s.st.heap EXCEPT ![w] = ObjSetattr(@, name, value)], w),
          res |-> Ok]

\* LazyObject.__delattr__ for a setting's name
ProxyDelattr(st, e, name) ==
    LET s == EnsureSetup(st, e) IN
    IF s.res # Ok THEN s
    ELSE LET w == s.st.wrapped
             d == ObjDelattr(s.st.heap[w], name)
         IN  [st |-> Store([s.st.heap EXCEPT ![w] = d.obj], w), res |-> d.res]

\* LazySettings.configured
Configured(st) == st.wrapped # Empty

\* Mutant: the options are not assigned to the new layer.
SetAllSkipped(o, opts, keys) == o

\* for name, value in options.items(): setattr(holder, name, value)
RECURSIVE SetAll(_, _, _)
SetAll(o, opts, keys) ==
    IF keys = <<>> THEN o
    ELSE SetAll(HolderSetattr(o, Head(keys), opts[Head(keys)]), opts, Tail(keys))

\* Mutant: configure() does not look whether the proxy is initialized.
ConfigureProxyAgain(st, default_settings, opts) ==
    LET r == NewRef(st.heap)
        holder == SetAll(HolderInit(default_settings), opts, OptKeys(opts))
    IN  [st |-> Store([st.heap EXCEPT ![r] = holder], r), res |-> Ok]

\* LazySettings.configure
ConfigureProxy(st, default_settings, opts) ==
    IF st.wrapped # Empty THEN [st |-> st, res |-> Raise(AlreadyConfigured)]
    ELSE LET r == NewRef(st.heap)
             holder == SetAll(HolderInit(default_settings), opts, OptKeys(opts))
         IN  [st |-> Store([st.heap EXCEPT ![r] = holder], r), res |-> Ok]

\* ---------------------------------------------------------------- signals

Event(k, v, enter) == [setting |-> k, value |-> v, enter |-> enter]

\* setting_changed.send for each event in turn; the listener of event number
\* failAt raises (0: none does), which ends the sending.
Sent(evs, failAt) ==
    IF failAt = 0 THEN evs ELSE SubSeq(evs, 1, failAt)

SendResult(failAt) == IF failAt = 0 THEN Ok ELSE Raise("ListenerError")

\* Mutant: every overridden key is warned about.
ComplexWarningsAll(opts, cs) == OptKeys(opts)

\* The warning for each overridden key that is a complex setting.
ComplexWarnings(opts, cs) == SelectSeq(OptKeys(opts), LAMBDA k : k \in cs)

\* ------------------------------------------------------- override_settings

\* The events enable() sends: one per option, entering.
EnterEvents(opts) ==
    [i \in 1..Len(OptKeys(opts)) |->
        Event(OptKeys(opts)[i], opts[OptKeys(opts)[i]], TRUE)]

\* What the new layer of enable() falls back to, given settings._wrapped.
OverrideBase(w) == w

\* What enable() keeps in self.wrapped, given settings._wrapped.
SavedAtEnable(w) == w

\* Mutant: enable() installs the new layer only after the events are sent.
EnableScopeSendsFirst(st, opts, failAt) ==
    LET r == NewRef(st.heap)
        override == SetAll(HolderInit(st.wrapped), opts, OptKeys(opts))
    IN  IF failAt > 0
        THEN [st |-> st, saved |-> Absent,
              events |-> Sent(EnterEvents(opts), failAt),
              res |-> SendResult(failAt)]
        ELSE [st |-> Store([st.heap EXCEPT ![r] = override], r),
              saved |-> st.wrapped,
              events |-> EnterEvents(opts),
              res |-> Ok]

\* override_settings.enable: what it leaves behind.
EnableScope(st, opts, failAt) ==
    LET r == NewRef(st.heap)
        override == SetAll(HolderInit(OverrideBase(st.wrapped)), opts,
                           OptKeys(opts))
    IN  [st |-> Store([st.heap EXCEPT ![r] = override], r),
         saved |-> SavedAtEnable(st.wrapped),
         events |-> Sent(EnterEvents(opts), failAt),
         res |-> SendResult(failAt)]

\* getattr(settings, key, None): AttributeError becomes None, anything else
\* that is raised gets through.
GetattrOrNone(st, e, name) ==
    LET g == ProxyGetattr(st, e, name) IN
    IF g.res.kind = NotFound THEN [st |-> g.st, res |-> Value(None)] ELSE g

\* The loop of override_settings.disable from key number i on: look the key
\* up, send the event.
RECURSIVE DisableLoop(_, _, _, _, _, _)
DisableLoop(st, e, keys, i, failAt, evs) ==
    IF i > Len(keys) THEN [st |-> st, events |-> evs, res |-> Ok]
    ELSE LET g == GetattrOrNone(st, e, keys[i]) IN
         IF g.res.kind # "value"
         THEN [st |-> g.st, events |-> evs, res |-> g.res]
         ELSE LET sent == Append(evs, Event(keys[i], g.res.val, FALSE)) IN
              IF failAt = i
              THEN [st |-> g.st, events |-> sent, res |-> Raise("ListenerError")]
              ELSE DisableLoop(g.st, e, keys, i + 1, failAt, sent)

\* Mutant: disable() resets the proxy to the uninitialized state.
RestoredUninitialized(sv) == Empty

\* Mutant: disable() leaves the current layer in place.
RestoredKeepsCurrent(sv) == wrapped

\* The layer disable() puts back, given self.wrapped.
Restored(sv) == sv

\* Mutant: disable() forgets the saved layer only after the events are sent.
DisableScopeSendsFirst(st, e, opts, sv, failAt) ==
    IF sv = Absent
    THEN [st |-> st, saved |-> sv, events |-> <<>>, res |-> Raise(NotFound)]
    ELSE LET d == DisableLoop(Store(st.heap, sv), e, OptKeys(opts), 1, failAt,
                              <<>>)
         IN  [st |-> d.st, saved |-> IF d.res = Ok THEN Absent ELSE sv,
              events |-> d.events, res |-> d.res]

\* Mutant: disable() of a scope that saved nothing resets the proxy.
DisableScopeUnguarded(st, e, opts, sv, failAt) ==
    LET d == DisableLoop(Store(st.heap, IF sv = Absent THEN Empty ELSE sv), e,
                         OptKeys(opts), 1, failAt, <<>>)
    IN  [st |-> d.st, saved |-> Absent, events |-> d.events, res |-> d.res]

\* override_settings.disable: what it leaves behind. sv is self.wrapped.
DisableScope(st, e, opts, sv, failAt) ==
    IF sv = Absent
    THEN [st |-> st, saved |-> sv, events |-> <<>>, res |-> Raise(NotFound)]
    ELSE LET d == DisableLoop(Store(st.heap, Restored(sv)), e, OptKeys(opts),
                              1, failAt, <<>>)
         IN  [st |-> d.st, saved |-> Absent, events |-> d.events, res |-> d.res]

\* __exit__ returns None: the failure of the body, if any, goes on to the
\* caller, unless disable() raised.
ExitResult(disableRes, raised) ==
    IF disableRes # Ok THEN disableRes
    ELSE IF raised THEN Raise("BodyError") ELSE Ok

\* ---------------------------------------------------------------- history

\* What settings.<k> gives in the current state.
GetResult(k) == ProxyGetattr(Cur, env, k).res

ObjAt(h, r) == IF r \in Refs THEN h[r] ELSE NoObj

\* An activation: the scope, the layer it installed, the layer that was
\* current before (below) and its contents then, what settings.<k> gave then
\* (pre), the keys set or deleted while it was innermost (touched), those last
\* deleted (deleted), the scopes that were in effect inside it and ended (nested).
NoEnded ==
    [valid |-> FALSE, scope |-> "-", depth |-> 0, layer |-> "-", below |-> "-",
     belowObj |-> NoObj, pre |-> [k \in Keys |-> Ok], touched |-> {},
     deleted |-> {}, nested |-> {}]

Top == nest[Len(nest)]

NestScopes == {nest[i].scope : i \in 1..Len(nest)}

\* The record of an activation of s that installs layer r.
Activation(s, r) ==
    [scope |-> s, layer |-> r, below |-> wrapped,
     belowObj |-> ObjAt(heap, wrapped),
     pre |-> [k \in Keys |-> GetResult(k)],
     touched |-> {}, deleted |-> {}, nested |-> {}]

NestAfterEnable(s, r) ==
    IF ~proper \/ s \in NestScopes THEN <<>> ELSE Append(nest, Activation(s, r))

ProperAfterEnable(s) == proper /\ s \notin NestScopes

\* Whether a disable() of s ends the innermost activation.
EndsTop(s) == proper /\ nest # <<>> /\ Top.scope = s

NestAfterDisable(s) ==
    IF saved[s] = Absent THEN nest
    ELSE IF ~EndsTop(s) THEN <<>>
    ELSE LET rest == SubSeq(nest, 1, Len(nest) - 1) IN
         IF rest = <<>> THEN rest
         ELSE [rest EXCEPT ![Len(rest)].nested = @ \cup {s}]

ProperAfterDisable(s) == saved[s] = Absent \/ EndsTop(s)

EndedAfterDisable(s) ==
    IF saved[s] # Absent /\ EndsTop(s)
    THEN [valid |-> TRUE, scope |-> s, depth |-> Len(nest), layer |-> Top.layer,
          below |-> Top.below, belowObj |-> Top.belowObj, pre |-> Top.pre,
          touched |-> Top.touched, deleted |-> Top.deleted,
          nested |-> Top.nested]
    ELSE NoEnded

\* set(k, ..) / delete(k) while an activation is in effect.
NestAfterSet(k) ==
    IF nest = <<>> THEN nest
    ELSE [nest EXCEPT ![Len(nest)].touched = @ \cup {k},
                      ![Len(nest)].deleted = @ \ {k}]

NestAfterDelete(k) ==
    IF nest = <<>> THEN nest
    ELSE [nest EXCEPT ![Len(nest)].touched = @ \cup {k},
                      ![Len(nest)].deleted = @ \cup {k}]

\* ------------------------------------------------------------------- init

Init ==
    /\ heap = [r \in Refs |-> NoObj]
    /\ wrapped = Empty
    /\ env \in EnvStates
    /\ \E p \in Setups :
          /\ options = [s \in Scopes |-> IF s = "A" THEN p[1] ELSE p[2]]
          /\ complex = p[3]
    /\ saved = [s \in Scopes |-> Absent]
    /\ pending = [s \in Scopes |-> 0]
    /\ result = Ok
    /\ events = <<>>
    /\ warnings = <<>>
    /\ nops = 0
    /\ mkeys = {}
    /\ nest = <<>>
    /\ proper = TRUE
    /\ ended = NoEnded
    /\ cfgd = FALSE

\* ---------------------------------------------------------------- actions

\* settings.<key>
Get(k) ==
    /\ LET g == ProxyGetattr(Cur, env, k) IN
       /\ heap' = g.st.heap
       /\ wrapped' = g.st.wrapped
       /\ result' = g.res
    /\ events' = <<>>
    /\ warnings' = <<>>
    /\ ended' = NoEnded
    /\ UNCHANGED <<env, options, saved, complex, pending, nops, mkeys, nest,
                   proper, cfgd>>

\* The set()/delete() calls of one run are about one key, and there are at
\* most MaxOps of them.
MayMutate(k) ==
    /\ nops < MaxOps
    /\ mkeys \subseteq {k}

\* settings.<key> = v
Set(k, v) ==
    /\ MayMutate(k)
    /\ LET g == ProxySetattr(Cur, env, k, v) IN
       /\ heap' = g.st.heap
       /\ wrapped' = g.st.wrapped
       /\ result' = g.res
    /\ events' = <<>>
    /\ warnings' = <<>>
    /\ nops' = nops + 1
    /\ mkeys' = mkeys \cup {k}
    /\ nest' = NestAfterSet(k)
    /\ ended' = NoEnded
    /\ UNCHANGED <<env, options, saved, complex, pending, proper, cfgd>>

\* del settings.<key>
Delete(k) ==
    /\ MayMutate(k)
    /\ LET g == ProxyDelattr(Cur, env, k) IN
       /\ heap' = g.st.heap
       /\ wrapped' = g.st.wrapped
       /\ result' = g.res
    /\ events' = <<>>
    /\ warnings' = <<>>
    /\ nops' = nops + 1
    /\ mkeys' = mkeys \cup {k}
    /\ nest' = NestAfterDelete(k)
    /\ ended' = NoEnded
    /\ UNCHANGED <<env, options, saved, complex, pending, proper, cfgd>>

\* settings.configure(default_settings, **opts)
Configure(d, opts) ==
    /\ LET g == ConfigureProxy(Cur, d, opts) IN
       /\ heap' = g.st.heap
       /\ wrapped' = g.st.wrapped
       /\ result' = g.res
       /\ cfgd' = (cfgd \/ g.res = Ok)
    /\ events' = <<>>
    /\ warnings' = <<>>
    /\ ended' = NoEnded
    /\ UNCHANGED <<env, options, saved, complex, pending, nops, mkeys, nest, proper>>

\* settings.configured
IsConfigured ==
    /\ result' = Value(IF Configured(Cur) THEN "True" ELSE "False")
    /\ events' = <<>>
    /\ warnings' = <<>>
    /\ ended' = NoEnded
    /\ UNCHANGED <<heap, wrapped, env, options, saved, complex, pending, nops,
                   mkeys, nest, proper, cfgd>>

\* s.enable(), and __enter__ of `with s:` or of a call of a function decorated
\* with s, which is enable(). When it returns, the guarded body (if it is a
\* block or a call) is entered.
Enable(s, failAt) ==
    /\ nops < MaxOps
    /\ failAt \in 0..Len(OptKeys(options[s]))
    /\ LET g == EnableScope(Cur, options[s], failAt) IN
       /\ heap' = g.st.heap
       /\ wrapped' = g.st.wrapped
       /\ saved' = [saved EXCEPT ![s] = g.saved]
       /\ events' = g.events
       /\ result' = g.res
       /\ nest' = NestAfterEnable(s, g.st.wrapped)
       /\ pending' = [pending EXCEPT ![s] = IF g.res = Ok THEN @ + 1 ELSE @]
    /\ warnings' = ComplexWarnings(options[s], complex)
    /\ nops' = nops + 1
    /\ proper' = ProperAfterEnable(s)
    /\ ended' = NoEnded
    /\ UNCHANGED <<env, options, complex, mkeys, cfgd>>

\* The part disable() and __exit__ share; raised tells whether a failure of
\* the guarded body is on its way to the caller.
Disabling(s, failAt, raised) ==
    /\ failAt \in 0..Len(OptKeys(options[s]))
    /\ LET g == DisableScope(Cur, env, options[s], saved[s], failAt) IN
       /\ failAt > 0 => g.res = Raise("ListenerError")
       /\ heap' = g.st.heap
       /\ wrapped' = g.st.wrapped
       /\ saved' = [saved EXCEPT ![s] = g.saved]
       /\ events' = g.events
       /\ result' = ExitResult(g.res, raised)
    /\ pending' = [pending EXCEPT ![s] = IF @ > 0 THEN @ - 1 ELSE 0]
    /\ warnings' = <<>>
    /\ nest' = NestAfterDisable(s)
    /\ proper' = ProperAfterDisable(s)
    /\ ended' = EndedAfterDisable(s)
    /\ UNCHANGED <<env, options, complex, nops, mkeys, cfgd>>

\* s.disable(), called directly: whether or not s is in effect.
Disable(s, failAt) == Disabling(s, failAt, FALSE)

\* The end of a `with s:` block or of a call decorated with s whose
\* __enter__ returned: the body returned, or raised a failure (raised = TRUE);
\* __exit__ runs disable().
Exit(s, raised, failAt) ==
    /\ pending[s] > 0
    /\ Disabling(s, failAt, raised)

Next ==
    \/ \E k \in Keys : Get(k)
    \/ \E k \in Keys, v \in InVals : Set(k, v)
    \/ \E k \in Keys : Delete(k)
    \/ \E c \in ConfigureArgs : Configure(c[1], c[2])
    \/ IsConfigured
    \/ \E s \in Scopes, f \in 0..Cardinality(Keys) : Enable(s, f)
    \/ \E s \in Scopes, f \in 0..Cardinality(Keys) : Disable(s, f)
    \/ \E s \in Scopes, x \in BOOLEAN, f \in 0..Cardinality(Keys) : Exit(s, x, f)

Spec == Init /\ [][Next]_vars

\* ----------------------------------------------------------------- claims

\* The activation that just ended was the only one in effect while it lasted.
EndedAlone == ended.valid /\ ended.depth = 1 /\ ended.nested = {}

\* C1: overrides do not leak. When a scope that was the only one in effect
\* ends, settings.<k> gives for every key what it gave just before the
\* scope's enable(), whatever was set or deleted through the proxy meanwhile;
\* and the layer that was current before the enable() is never changed while
\* the scope is the only one in effect.
C1_NoLeak ==
    /\ EndedAlone =>
          /\ \A k \in Keys : GetResult(k) = ended.pre[k]
          /\ ObjAt(heap, ended.below) = ended.belowObj
    /\ (proper /\ Len(nest) = 1) =>
          ObjAt(heap, nest[1].below) = nest[1].belowObj

\* C1 witness: a scope ended alone after a key that had a value before it was
\* set or deleted inside it.
C1_Witness ==
    /\ EndedAlone
    /\ ended.below # Empty
    /\ \E k \in ended.touched : ended.pre[k].kind = "value"
    /\ \A k \in Keys : GetResult(k) = ended.pre[k]

\* The keys both mappings of options name.
CommonKeys(o1, o2) == {k \in Keys : o1[k] # Absent /\ o2[k] # Absent}

\* C2: properly nested overrides of one key. With no prior value for k, and
\* scope B entered inside scope A, both overriding k: settings.<k> is B's
\* value while B is in effect, A's value once B has ended and A is still in
\* effect, and fails with AttributeError once A has ended.
C2_NestedLifo ==
    /\ (proper /\ Len(nest) = 2) =>
          \A k \in CommonKeys(options[nest[1].scope], options[nest[2].scope]) :
             (nest[1].pre[k] = Raise(NotFound)
                 /\ k \notin nest[1].touched \cup nest[2].touched)
             => GetResult(k) = Value(options[nest[2].scope][k])
    /\ (proper /\ Len(nest) = 1 /\ ended.valid /\ ended.depth = 2) =>
          \A k \in CommonKeys(options[nest[1].scope], options[ended.scope]) :
             (nest[1].pre[k] = Raise(NotFound) /\ k \notin nest[1].touched)
             => GetResult(k) = Value(options[nest[1].scope][k])
    /\ (ended.valid /\ ended.depth = 1) =>
          \A b \in ended.nested :
             \A k \in CommonKeys(options[ended.scope], options[b]) :
                ended.pre[k] = Raise(NotFound)
                => GetResult(k) = Raise(NotFound)

\* C2 witness: A has ended after B ended inside it, both overrode a key that
\* had no value before, and the key has none again.
C2_Witness ==
    /\ ended.valid /\ ended.depth = 1
    /\ ended.below # Empty
    /\ \E b \in ended.nested :
          \E k \in CommonKeys(options[ended.scope], options[b]) :
             /\ ended.pre[k] = Raise(NotFound)
             /\ GetResult(k) = Raise(NotFound)

\* C3: the scoped-acquisition guarantee. When the body guarded by a scope in
\* effect raises and no listener does, __exit__ leaves the proxy on the layer
\* saved at enable() (set up from PYCONF_MODULE if that was the uninitialized
\* one), the scope without a saved layer, and the caller with the failure of
\* the body.
C3_BodyFailurePropagates ==
    [][\A s \in Scopes :
          (saved[s] # Absent /\ Exit(s, TRUE, 0))
          => /\ \/ wrapped' = saved[s]
                \/ /\ saved[s] = Empty
                   /\ wrapped' = Setup(Store(heap, Empty), env).st.wrapped
             /\ saved'[s] = Absent
             /\ result' = Raise("BodyError")]_vars

\* The events the claim of C4 expects of a disable(): one per option, exiting,
\* with what settings.<key> gives (None when it raises AttributeError).
ExitEventsExpected(opts, st, e) ==
    [i \in 1..Len(OptKeys(opts)) |->
        LET g == ProxyGetattr(st, e, OptKeys(opts)[i]).res IN
        Event(OptKeys(opts)[i], IF g.kind = "value" THEN g.val ELSE None, FALSE)]

\* C4: notification pairing. With listeners that do not raise, enable() sends
\* one entering event per option with the requested value, and the disable()
\* of a scope in effect sends one exiting event per option with the value
\* settings.<key> has once the saved layer is back (None for AttributeError).
C4_NotificationPairing ==
    [][\A s \in Scopes :
          /\ Enable(s, 0) => events' = EnterEvents(options[s])
          /\ (saved[s] # Absent /\ Disable(s, 0))
             => events' = ExitEventsExpected(options[s],
                                             Store(heap, saved[s]), env)]_vars

\* C5: deletion inside an override. A key with a value before the only scope
\* in effect was enabled, and deleted through the proxy inside it, raises
\* AttributeError while the scope lasts and has its value again once the
\* scope has ended.
C5_DeleteRoundTrip ==
    /\ (proper /\ Len(nest) = 1) =>
          \A k \in nest[1].deleted :
             nest[1].pre[k].kind = "value" => GetResult(k) = Raise(NotFound)
    /\ EndedAlone =>
          \A k \in ended.deleted :
             ended.pre[k].kind = "value" => GetResult(k) = ended.pre[k]

\* C6: set then delete. del settings.<k> on a current layer that holds a value
\* assigned by settings.<k> = v leaves settings.<k> raising AttributeError,
\* whatever the layers below provide.
C6_SetDeleteShadows ==
    [][\A k \in Keys :
          (wrapped \in Refs /\ heap[wrapped].attrs[k] \in InVals /\ Delete(k))
          => GetResult(k)' = Raise(NotFound)]_vars

\* C7: configure. On an initialized proxy it raises RuntimeError and changes
\* neither the proxy nor any layer; on an uninitialized one it installs a new
\* layer over the given defaults holding exactly the options.
C7_Configure ==
    [][\A c \in ConfigureArgs :
          Configure(c[1], c[2])
          => IF wrapped # Empty
             THEN /\ result' = Raise(AlreadyConfigured)
                  /\ wrapped' = wrapped
                  /\ heap' = heap
             ELSE /\ result' = Ok
                  /\ wrapped' \in Refs
                  /\ heap[wrapped'] = NoObj
                  /\ heap'[wrapped'].kind = "Holder"
                  /\ heap'[wrapped'].deleted = {}
                  /\ heap'[wrapped'].attrs =
                        [c[2] EXCEPT !["default_settings"] = c[1]]
                  /\ \A r \in Refs \ {wrapped'} : heap'[r] = heap[r]]_vars

\* C7 witness: a configure() of a proxy that was initialized has failed.
C7_Witness ==
    /\ result = Raise(AlreadyConfigured)
    /\ wrapped # Empty

\* C8: settings.<key> on an uninitialized proxy without PYCONF_MODULE raises
\* ImproperlyConfigured and leaves the proxy uninitialized; settings.configured
\* tells whether the proxy is initialized and changes nothing.
C8_NotConfigured ==
    [][/\ \A k \in Keys :
             (wrapped = Empty /\ env = "unset" /\ Get(k))
             => /\ result' = Raise(NotConfigured)
                /\ wrapped' = Empty
                /\ heap' = heap
       /\ IsConfigured
          => /\ result' = Value(IF wrapped # Empty THEN "True" ELSE "False")
             /\ UNCHANGED <<heap, wrapped, env, options, saved>>]_vars

\* C8 witness: a lookup has failed with ImproperlyConfigured on a proxy nothing
\* else was done to, and the proxy is still uninitialized.
C8_Witness ==
    /\ result = Raise(NotConfigured)
    /\ wrapped = Empty
    /\ nops = 0
    /\ \A r \in Refs : heap[r] = NoObj

\* How many times x occurs in the sequence q.
Count(q, x) == Cardinality({i \in 1..Len(q) : q[i] = x})

\* C9: warnings. enable() warns once about each option that is a complex
\* setting and about nothing else; disable() and __exit__ warn about nothing.
C9_ComplexWarnings ==
    [][\A s \in Scopes, f \in 0..Cardinality(Keys) :
          /\ (nops' = nops + 1 /\ Enable(s, f))
             => \A k \in Keys :
                   Count(warnings', k) =
                      IF options[s][k] # Absent /\ k \in complex THEN 1 ELSE 0
          /\ warnings' # <<>> => ~Disable(s, f)
          /\ warnings' # <<>> => \A x \in BOOLEAN : ~Exit(s, x, f)]_vars

\* C9 witness: an enable() has warned about a complex setting it overrides.
C9_Witness ==
    /\ warnings # <<>>
    /\ \E s \in Scopes : saved[s] # Absent /\ wrapped \in Refs
    /\ \A i \in 1..Len(warnings) : warnings[i] \in complex

\* C10: capture at enable() time. A scope enabled inside another one keeps the
\* outer scope's layer to restore and builds its layer over it: the outer
\* scope's options it does not override itself stay visible inside it, and
\* its disable() leaves the outer scope's layer current.
C10_CaptureAtEnable ==
    /\ (proper /\ Len(nest) = 2) =>
          /\ saved[nest[2].scope] = nest[1].layer
          /\ nest[2].touched = {} =>
                \A k \in Keys :
                   (/\ options[nest[1].scope][k] # Absent
                    /\ options[nest[2].scope][k] = Absent
                    /\ k \notin nest[1].touched)
                   => GetResult(k) = Value(options[nest[1].scope][k])
    /\ (proper /\ Len(nest) = 1 /\ ended.valid /\ ended.depth = 2) =>
          wrapped = nest[1].layer

\* C11: restoration in any order. With another scope holding a saved layer,
\* whatever layer is current, the disable() of a scope in effect (no listener
\* raising) leaves the proxy on the layer that scope saved at its enable()
\* (set up from PYCONF_MODULE if that was the uninitialized one) and raises
\* nothing.
C11_RestoresSavedAnyOrder ==
    [][\A s \in Scopes :
          (/\ saved[s] # Absent
           /\ \E t \in Scopes \ {s} : saved[t] # Absent
           /\ Disable(s, 0))
          => /\ \/ wrapped' = saved[s]
                \/ /\ saved[s] = Empty
                   /\ wrapped' = Setup(Store(heap, Empty), env).st.wrapped
             /\ result' = Ok]_vars

\* C12: initialized once. Once settings.configured is true it stays true.
C12_ConfiguredStays ==
    [][wrapped # Empty => wrapped' # Empty]_vars

\* The Settings objects the deferred setup has made.
Loaded(h) == {r \in Refs : h[r].kind = "Settings"}

\* C13: the deferred setup. It makes at most one Settings object in a run,
\* never in a run in which configure() has succeeded, and makes it only when
\* the proxy is uninitialized at the access: before the operation, or in a
\* disable() that has just put the uninitialized state back; and the proxy
\* then wraps the object it made.
C13_LoadsOnce ==
    [][/\ Cardinality(Loaded(heap')) <= 1
       /\ ~(cfgd' /\ Loaded(heap') # {})
       /\ Loaded(heap') # Loaded(heap)
          => /\ \/ wrapped = Empty
                \/ \E s \in Scopes : saved[s] = Empty /\ saved'[s] = Absent
             /\ wrapped' \in Loaded(heap') \ Loaded(heap)]_vars

\* C13 witness: the deferred setup has run in the disable() of a scope that
\* was enabled on the uninitialized proxy, and the proxy wraps what it made.
C13_Witness ==
    /\ ended.valid
    /\ ended.below = Empty
    /\ wrapped \in Loaded(heap)
    /\ Cardinality(Allocated(heap)) = 2
    /\ ~cfgd

\* C14: disable() of a scope without a saved layer (never enabled, or already
\* disabled) raises AttributeError, changes neither the proxy nor any layer,
\* and sends no event.
C14_DisableNeedsActive ==
    [][\A s \in Scopes : \A f \in 0..Len(OptKeys(options[s])) :
          (saved[s] = Absent /\ nops' = nops /\ Disable(s, f))
          => /\ result' = Raise(NotFound)
             /\ wrapped' = wrapped
             /\ heap' = heap
             /\ saved' = saved
             /\ events' = <<>>]_vars

\* C14 witness: with a scope in effect, an operation has raised
\* AttributeError without sending anything, as the disable() of the other,
\* idle scope does.
C14_Witness ==
    /\ result = Raise(NotFound)
    /\ events = <<>>
    /\ \E s, t \in Scopes :
          /\ saved[s] = Absent
          /\ saved[t] # Absent
          /\ wrapped \in Refs

\* C15: re-entrant use. The __exit__ answering an __enter__ of a scope whose
\* body did not fail (no listener raising, and the proxy initialized when the
\* scope was enabled) finds the layer saved by its own enable() and raises
\* nothing.
C15_ReentrantExit ==
    [][\A s \in Scopes :
          (pending[s] > 0 /\ saved[s] # Empty /\ Exit(s, FALSE, 0))
          => /\ saved[s] # Absent
             /\ result' = Ok]_vars

\* The layers that are UserSettingsHolder objects.
Holders(h) == {r \in Refs : h[r].kind = "Holder"}

FallbackResult(h, r, k) ==
    Getattr(h, h[r].attrs["default_settings"], k, RecursionLimit)

\* C17: deleting what only the fallback provides. del settings.<k> on a
\* current layer that does not hold k itself, while its fallback has a value
\* for k, raises nothing, puts k in _deleted, leaves settings.<k> raising
\* AttributeError and the other layers as they were.
C17_DeleteNonLocal ==
    [][\A k \in Keys :
          (/\ nops' = nops + 1
           /\ wrapped \in Holders(heap)
           /\ heap[wrapped].attrs[k] = Absent
           /\ FallbackResult(heap, wrapped, k).kind = "value"
           /\ Delete(k))
          => /\ result' = Ok
             /\ k \in heap'[wrapped].deleted
             /\ GetResult(k)' = Raise(NotFound)
             /\ \A r \in Refs \ {wrapped} : heap'[r] = heap[r]]_vars

\* Whether the fallback chain from v ends at a root configuration (a Settings
\* object, the defaults given to configure(), or `empty`) within fuel layers.
RECURSIVE ChainEndsAtRoot(_, _, _)
ChainEndsAtRoot(h, v, fuel) ==
    IF v \in {Empty, DefaultsRef} THEN TRUE
    ELSE IF v \notin Allocated(h) THEN FALSE
    ELSE IF h[v].kind = "Settings" THEN TRUE
    ELSE IF fuel = 0 THEN FALSE
    ELSE ChainEndsAtRoot(h, h[v].attrs["default_settings"], fuel - 1)

\* C18: the fallback chain. From the current layer the chain of
\* default_settings references ends at a root configuration after at most as
\* many steps as there are layers, and no lookup exceeds the recursion limit.
C18_ChainEndsAtRoot ==
    /\ ChainEndsAtRoot(heap, wrapped, MaxObjs)
    /\ \A k \in Keys : GetResult(k).kind # "RecursionError"

C20_EnableListenerFails ==
    [][\A s \in Scopes : \A f \in 1..Len(OptKeys(options[s])) :
          (nops' = nops + 1 /\ Enable(s, f))
          => /\ result' = Raise("ListenerError")
             /\ Len(events') = f
             /\ \A i \in 1..f : events'[i].enter
             /\ wrapped' \in Refs
             /\ heap[wrapped'] = NoObj
             /\ heap'[wrapped'].kind = "Holder"
             /\ \A k \in Keys :
                   options[s][k] # Absent
                   => heap'[wrapped'].attrs[k] = options[s][k]
             /\ saved'[s] = wrapped
             /\ pending'[s] = pending[s]]_vars

\* C20 witness: the listener of an entering event has raised; the override
\* layer is current, the scope holds a saved layer and no __exit__ is owed.
C20_Witness ==
    /\ result = Raise("ListenerError")
    /\ events # <<>>
    /\ events[1].enter
    /\ wrapped \in Holders(heap)
    /\ \E s \in Scopes :
          /\ saved[s] # Absent
          /\ pending[s] = 0
          /\ options[s][events[1].setting] = heap[wrapped].attrs[events[1].setting]

====
